---- MODULE Spec2Model ----
(***************************************************************************)
(* Command-interception guards of dot-claude-plugins:                      *)
(*   github-cli/scripts/gh_write_blocker.py        (gh write guard)        *)
(*   modern-cli-enforcer/scripts/enforce.py        (modern-CLI enforcer)   *)
(*   native-timeout-enforcer/scripts/validate_timeout.py                   *)
(*   python-manager-enforcer/scripts/enforce.py                            *)
(* Each guard is a one-shot process: it reads one request from standard    *)
(* input, decides, writes a reason to stderr when it blocks, and exits.    *)
(* Commands are TLA+ strings; the Python string methods the guards use are *)
(* the operators of the first section, computed as Python computes them.   *)
(***************************************************************************)
EXTENDS Integers, Sequences, FiniteSets, TLC

(***************************************************************************)
(* Python string primitives                                                *)
(***************************************************************************)

\* s[i] (1-based), as a one-character string
Char(s, i) == SubSeq(s, i, i)

\* characters str.split() / str.strip() / regex \s treat as whitespace
IsSpace(c) == c \in {" ", "\t", "\n", "\r", "\f"}

\* s.startswith(p)
StartsWith(s, p) == Len(s) >= Len(p) /\ SubSeq(s, 1, Len(p)) = p

\* s.endswith(p)
EndsWith(s, p) == Len(s) >= Len(p) /\ SubSeq(s, Len(s) - Len(p) + 1, Len(s)) = p

\* p in s
Contains(s, p) == \E i \in 1..(Len(s) - Len(p) + 1) : SubSeq(s, i, i + Len(p) - 1) = p

\* s[n:]
Drop(s, n) == SubSeq(s, n + 1, Len(s))

SetMin(S) == CHOOSE x \in S : \A y \in S : x <= y
SetMax(S) == CHOOSE x \in S : \A y \in S : x >= y

\* s.strip()
Strip(s) ==
    LET ink == {i \in 1..Len(s) : ~IsSpace(Char(s, i))}
    IN  IF ink = {} THEN "" ELSE SubSeq(s, SetMin(ink), SetMax(ink))

\* s.split(): the maximal runs of non-whitespace, in order
RECURSIVE Split(_)
Split(s) ==
    LET ink == {i \in 1..Len(s) : ~IsSpace(Char(s, i))}
    IN  IF ink = {} THEN << >>
        ELSE LET b   == SetMin(ink)
                 sp  == {j \in b..Len(s) : IsSpace(Char(s, j))}
                 e   == IF sp = {} THEN Len(s) + 1 ELSE SetMin(sp)
             IN  <<SubSeq(s, b, e - 1)>> \o Split(Drop(s, e - 1))

\* s.split(sep) for a one-character separator: empty pieces are kept
RECURSIVE SplitOn(_, _)
SplitOn(s, sep) ==
    LET at == {i \in 1..Len(s) : Char(s, i) = sep}
    IN  IF at = {} THEN <<s>>
        ELSE <<SubSeq(s, 1, SetMin(at) - 1)>> \o SplitOn(Drop(s, SetMin(at)), sep)

\* s.replace(old, new): leftmost non-overlapping occurrences
RECURSIVE Replace(_, _, _)
Replace(s, old, new) ==
    IF Len(s) < Len(old) THEN s
    ELSE IF StartsWith(s, old) THEN new \o Replace(Drop(s, Len(old)), old, new)
    ELSE Char(s, 1) \o Replace(Drop(s, 1), old, new)

\* sep.join(seq)
RECURSIVE Join(_, _)
Join(sep, seq) ==
    IF seq = << >> THEN ""
    ELSE IF Len(seq) = 1 THEN seq[1]
    ELSE seq[1] \o sep \o Join(sep, Tail(seq))

LowerChar(c) ==
    CASE c = "A" -> "a" [] c = "B" -> "b" [] c = "C" -> "c" [] c = "D" -> "d"
      [] c = "E" -> "e" [] c = "F" -> "f" [] c = "G" -> "g" [] c = "H" -> "h"
      [] c = "I" -> "i" [] c = "J" -> "j" [] c = "K" -> "k" [] c = "L" -> "l"
      [] c = "M" -> "m" [] c = "N" -> "n" [] c = "O" -> "o" [] c = "P" -> "p"
      [] c = "Q" -> "q" [] c = "R" -> "r" [] c = "S" -> "s" [] c = "T" -> "t"
      [] c = "U" -> "u" [] c = "V" -> "v" [] c = "W" -> "w" [] c = "X" -> "x"
      [] c = "Y" -> "y" [] c = "Z" -> "z" [] OTHER -> c

\* s.lower()
RECURSIVE Lower(_)
Lower(s) == IF s = "" THEN "" ELSE LowerChar(Char(s, 1)) \o Lower(Drop(s, 1))

DigitVal(c) ==
    CASE c = "0" -> 0 [] c = "1" -> 1 [] c = "2" -> 2 [] c = "3" -> 3 [] c = "4" -> 4
      [] c = "5" -> 5 [] c = "6" -> 6 [] c = "7" -> 7 [] c = "8" -> 8 [] c = "9" -> 9
      [] OTHER -> -1

DigitChar(d) ==
    CASE d = 0 -> "0" [] d = 1 -> "1" [] d = 2 -> "2" [] d = 3 -> "3" [] d = 4 -> "4"
      [] d = 5 -> "5" [] d = 6 -> "6" [] d = 7 -> "7" [] d = 8 -> "8" [] OTHER -> "9"

\* s.isdigit(): non-empty and every character a digit
IsDigit(s) == s # "" /\ \A i \in 1..Len(s) : DigitVal(Char(s, i)) >= 0

\* int(s) for a string of digits (Python integers do not overflow)
RECURSIVE ParseInt(_)
ParseInt(s) ==
    IF s = "" THEN 0
    ELSE 10 * ParseInt(SubSeq(s, 1, Len(s) - 1)) + DigitVal(Char(s, Len(s)))

\* str(n) for n >= 0
RECURSIVE ToStr(_)
ToStr(n) == IF n < 10 THEN DigitChar(n) ELSE ToStr(n \div 10) \o DigitChar(n % 10)

(***************************************************************************)
(* Requests, outcomes and the shared reading of standard input             *)
(***************************************************************************)

VARIABLES guard, request, env, pc, exit_code, stderr
vars == <<guard, request, env, pc, exit_code, stderr>>

\* sys.exit(0) with nothing written
Allow == [exit |-> 0, err |-> "", raised |-> FALSE]

\* sys.stderr.write(msg); sys.exit(2)
Block(msg) == [exit |-> 2, err |-> msg, raised |-> FALSE]

\* an exception (a subclass of Exception) propagating out of the try body
Raised == [exit |-> 1, err |-> "Traceback (most recent call last):", raised |-> TRUE]

\* what becomes of the outcome without a handler: the exception ends the process
ProcessDies(o) == o

\* `except Exception: sys.exit(0)` around the body of every main()
ExceptExit0(o) == IF o.raised THEN Allow ELSE o

\* truth value of the JSON value found under tool_input.command
Truthy(kind, val) ==
    CASE kind = "str" -> val # ""
      [] kind \in {"num", "list", "true", "obj"} -> TRUE
      [] OTHER -> FALSE

\* data.get('tool_input', {}).get('command', '') on the parsed document:
\* .get on anything but a dict raises AttributeError
GetCommand(req) ==
    IF req.shape # "object" \/ req.tool_input = "nonobject"
    THEN [raised |-> TRUE, kind |-> "str", val |-> ""]
    ELSE IF req.tool_input = "absent" \/ req.ckind = "absent"
    THEN [raised |-> FALSE, kind |-> "str", val |-> ""]
    ELSE [raised |-> FALSE, kind |-> req.ckind, val |-> req.command]

(***************************************************************************)
(* gh write guard                                                          *)
(***************************************************************************)

WRITE_METHODS == <<"POST", "PUT", "PATCH", "DELETE">>

WRITE_CMDS == <<
    "gh repo create", "gh repo delete", "gh repo fork", "gh repo rename", "gh repo archive",
    "gh issue create", "gh issue edit", "gh issue close", "gh issue delete",
    "gh issue pin", "gh issue unpin", "gh issue transfer",
    "gh pr create", "gh pr edit", "gh pr close", "gh pr merge", "gh pr reopen",
    "gh pr ready", "gh pr comment", "gh pr review",
    "gh release create", "gh release delete", "gh release edit", "gh release upload",
    "gh run cancel", "gh run rerun",
    "gh workflow enable", "gh workflow disable", "gh workflow run",
    "gh gist create", "gh gist edit", "gh gist delete",
    "gh project create", "gh project edit", "gh project delete",
    "gh project item-add", "gh project item-edit", "gh project item-delete",
    "gh project field-create", "gh project field-delete" >>

\* the value load_settings() returns for each state of ~/.claude/settings.json
load_settings(file) ==
    CASE file = "enabled_true"  -> [dict |-> TRUE, has_enabled |-> TRUE, enabled |-> TRUE]
      [] file = "enabled_false" -> [dict |-> TRUE, has_enabled |-> TRUE, enabled |-> FALSE]
      [] file = "not_dict"      -> [dict |-> FALSE, has_enabled |-> FALSE, enabled |-> FALSE]
      [] OTHER                  -> [dict |-> TRUE, has_enabled |-> FALSE, enabled |-> FALSE]

has_method_flag(cmd, method) ==
    LET cmd_lower == Lower(cmd)
        method_lower == Lower(method)
    IN  \/ Contains(cmd_lower, "-x " \o method_lower)
        \/ Contains(cmd_lower, "-x" \o method_lower)
        \/ Contains(cmd_lower, "--method " \o method_lower)
        \/ Contains(cmd_lower, "--method=" \o method_lower)

\* has_field_flag matching the prefix anywhere in the token
has_field_flag_anywhere(cmd) ==
    LET tokens == Split(cmd)
    IN  \E i \in 1..Len(tokens) :
            \/ tokens[i] \in {"-f", "-F", "--field", "--raw-field"}
            \/ Contains(tokens[i], "-f")
            \/ Contains(tokens[i], "-F")

has_field_flag(cmd) ==
    LET tokens == Split(cmd)
    IN  \E i \in 1..Len(tokens) :
            \/ tokens[i] \in {"-f", "-F", "--field", "--raw-field"}
            \/ StartsWith(tokens[i], "-f")
            \/ StartsWith(tokens[i], "-F")

\* has_get_method comparing as has_method_flag does, ignoring case
has_get_method_nocase(cmd) ==
    \/ Contains(Lower(cmd), "-x get")
    \/ Contains(Lower(cmd), "--method get")
    \/ Contains(Lower(cmd), "--method=get")

has_get_method(cmd) ==
    \/ Contains(cmd, "-X GET")
    \/ Contains(cmd, "--method GET")
    \/ Contains(cmd, "--method=GET")

\* tokens[0] == 'gh' and tokens[1] == 'api'
IsGhApi(cmd) ==
    LET tokens == Split(cmd)
    IN  Len(tokens) >= 2 /\ tokens[1] = "gh" /\ tokens[2] = "api"

\* the catalogue entries equal to the command, instead of its prefixes
MatchedWriteCmdsExact(cmd) == {i \in 1..Len(WRITE_CMDS) : cmd = WRITE_CMDS[i]}

\* the indexes of the catalogue entries the raw command starts with
MatchedWriteCmds(cmd) == {i \in 1..Len(WRITE_CMDS) : StartsWith(cmd, WRITE_CMDS[i])}

\* the try body of main() once the command is known to be a string
GhCheck(cmd, settings_file) ==
    LET settings == load_settings(settings_file)
        methods  == {i \in 1..Len(WRITE_METHODS) : has_method_flag(cmd, WRITE_METHODS[i])}
        writes   == MatchedWriteCmds(cmd)
    IN  IF ~settings.dict THEN Raised
        ELSE IF settings.has_enabled /\ ~settings.enabled THEN Allow
        ELSE IF IsGhApi(cmd) /\ methods # {}
        THEN Block("(x) GitHub write blocked: gh api " \o WRITE_METHODS[SetMin(methods)])
        ELSE IF IsGhApi(cmd) /\ has_field_flag(cmd) /\ ~has_get_method(cmd)
        THEN Block("(x) GitHub write blocked: gh api with -f/-F flags (defaults to POST)")
        ELSE IF writes # {}
        THEN Block("(x) GitHub write blocked: gh "
                   \o Replace(WRITE_CMDS[SetMin(writes)], "gh ", ""))
        ELSE Allow

\* main() of gh_write_blocker.py
GhOutcome(req, e) ==
    LET c == GetCommand(req)
        body ==
            IF req.shape \in {"empty", "invalid"} THEN Raised
            ELSE IF c.raised THEN Raised
            ELSE IF req.tool_name # "Bash" THEN Allow
            ELSE IF c.kind # "str" THEN Raised
            ELSE IF ~StartsWith(c.val, "gh ") THEN Allow
            ELSE GhCheck(c.val, e.settings)
    IN  ExceptExit0(body)

(***************************************************************************)
(* modern-CLI enforcer                                                     *)
(***************************************************************************)

\* Segments without the replacement of ";"
SegmentsNoSemicolon(cmd) ==
    LET c1 == Replace(cmd, "|", "\n")
        c2 == Replace(c1, "&&", "\n")
        c3 == Replace(c2, "||", "\n")
    IN  SplitOn(c3, "\n")

\* the command with every shell operator replaced by a newline, cut at newlines
Segments(cmd) ==
    LET c1 == Replace(cmd, "|", "\n")
        c2 == Replace(c1, "&&", "\n")
        c3 == Replace(c2, "||", "\n")
        c4 == Replace(c3, ";", "\n")
    IN  SplitOn(c4, "\n")

\* has_command_word looking at every token, not at segment heads
has_command_word_any_token(cmd, word) ==
    \E i \in 1..Len(Split(cmd)) : Split(cmd)[i] = word

has_command_word(cmd, word) ==
    LET segs == Segments(cmd)
    IN  \E i \in 1..Len(segs) :
            LET tokens == Split(Strip(segs[i]))
            IN  tokens # << >> /\ tokens[1] = word

\* (legacy tool, executable looked up with shutil.which, name shown, example)
LEGACY == <<
    [old |-> "grep", which |-> "rg",  new |-> "ripgrep (rg)", ex |-> "grep 'pattern' -> rg 'pattern'"],
    [old |-> "find", which |-> "fd",  new |-> "fd",           ex |-> "find . -name '*.txt' -> fd '*.txt'"],
    [old |-> "cat",  which |-> "bat", new |-> "bat",          ex |-> "cat file.py -> bat file.py"],
    [old |-> "ls",   which |-> "eza", new |-> "eza",          ex |-> "ls -la -> eza -la"] >>

\* the indexes of LEGACY appended to `blocks`
LegacyBlocks(cmd, installed) ==
    {i \in 1..Len(LEGACY) : LEGACY[i].which \in installed /\ has_command_word(cmd, LEGACY[i].old)}

RECURSIVE BlockLines(_, _, _)
BlockLines(blocks, i, tools) ==
    IF i > Len(LEGACY) THEN << >>
    ELSE (IF i \in blocks
          THEN << IF tools THEN "  * Use " \o LEGACY[i].new \o " instead of " \o LEGACY[i].old
                           ELSE "  " \o LEGACY[i].ex >>
          ELSE << >>) \o BlockLines(blocks, i + 1, tools)

LegacyMessage(blocks) ==
    "(!)  Legacy CLI tool(s) detected. Modern alternatives are available:\n\n"
    \o Join("\n", BlockLines(blocks, 1, TRUE))
    \o "\n\n**Why modern tools?**\n"
    \o "  - Faster performance (parallel processing)\n"
    \o "  - Better defaults (smart ignore patterns)\n"
    \o "  - Improved UX (colors, formatting)\n\n"
    \o "**Example replacements:**\n"
    \o Join("\n", BlockLines(blocks, 1, FALSE))
    \o "\n\nThis command will be **blocked**. Please use modern alternatives.\n"

\* main() of modern-cli-enforcer/scripts/enforce.py
ModernOutcome(req, e) ==
    LET c == GetCommand(req)
        body ==
            IF c.raised THEN Raised
            ELSE IF ~Truthy(c.kind, c.val) THEN Allow
            ELSE IF c.kind # "str"
            THEN (IF \E i \in 1..Len(LEGACY) : LEGACY[i].which \in e.installed
                  THEN Raised ELSE Allow)
            ELSE LET blocks == LegacyBlocks(c.val, e.installed)
                 IN  IF blocks # {} THEN Block(LegacyMessage(blocks)) ELSE Allow
    IN  ExceptExit0(body)

(***************************************************************************)
(* native timeout enforcer                                                 *)
(***************************************************************************)

\* token ends with s/m/h/d after digits, or is all digits
IsDurationToken(token) ==
    \/ /\ Char(token, Len(token)) \in {"s", "m", "h", "d"}
       /\ IsDigit(SubSeq(token, 1, Len(token) - 1))
    \/ IsDigit(token)

parse_duration(cmd) ==
    LET tokens == Split(Strip(cmd))
    IN  IF tokens = << >> \/ tokens[1] \notin {"timeout", "gtimeout"}
        THEN [duration |-> "", actual |-> cmd]
        ELSE LET hits == {i \in 2..Len(tokens) :
                            ~StartsWith(tokens[i], "--") /\ IsDurationToken(tokens[i])}
                 duration == IF hits = {} THEN "5" ELSE tokens[SetMin(hits)]
                 cmd_start_idx == IF hits = {} THEN 1 ELSE SetMin(hits)
             IN  [duration |-> duration,
                  actual   |-> Join(" ", SubSeq(tokens, cmd_start_idx + 1, Len(tokens)))]

\* to_ms without the minutes branch
to_ms_seconds_only(duration) ==
    LET init == SubSeq(duration, 1, Len(duration) - 1)
    IN  IF EndsWith(duration, "s") /\ IsDigit(init) THEN ToStr(ParseInt(init) * 1000)
        ELSE IF IsDigit(duration) THEN ToStr(ParseInt(duration) * 1000)
        ELSE "5000"

to_ms(duration) ==
    LET init == SubSeq(duration, 1, Len(duration) - 1)
    IN  IF EndsWith(duration, "s") /\ IsDigit(init) THEN ToStr(ParseInt(init) * 1000)
        ELSE IF EndsWith(duration, "m") /\ IsDigit(init) THEN ToStr(ParseInt(init) * 60000)
        ELSE IF IsDigit(duration) THEN ToStr(ParseInt(duration) * 1000)
        ELSE "5000"

\* main() of validate_timeout.py
TimeoutOutcome(req, e) ==
    LET c == GetCommand(req)
        cmd == c.val
        cmd_stripped == Strip(cmd)
        body ==
            IF c.raised THEN Raised
            ELSE IF ~Truthy(c.kind, c.val) THEN Allow
            ELSE IF c.kind # "str" THEN Raised
            ELSE IF StartsWith(cmd_stripped, "timeout ") \/ StartsWith(cmd_stripped, "gtimeout ")
            THEN LET d == parse_duration(cmd)
                 IN  Block("(!) Direct timeout blocked\nUse Bash timeout parameter: Bash(command=\""
                           \o d.actual \o "\", timeout=" \o to_ms(d.duration) \o ")\n")
            ELSE IF /\ Contains(cmd, " timeout ") \/ Contains(cmd, " gtimeout ")
                    /\ \E sep \in {"&&", "||", ";", "|"} : Contains(cmd, sep)
            THEN Block("(!) Timeout in command chain blocked\nSplit into separate Bash calls with timeout parameter\n")
            ELSE Allow
    IN  ExceptExit0(body)

(***************************************************************************)
(* python-manager enforcer                                                 *)
(***************************************************************************)

\* A project directory is a record:
\*   dir       "unset" (CLAUDE_PROJECT_DIR is the empty string), "missing"
\*             (not a directory) or "dir"
\*   files     the marker files and directories present
\*   readable  the files whose read_text() succeeds
\*   pyproject, pyver   the text of pyproject.toml and of .python-version
detect_package_manager(project) ==
    LET has(f) == f \in project.files
        can_read(f) == f \in project.readable
    IN  IF project.dir # "dir" THEN "None"
        ELSE IF has("poetry.lock") THEN "poetry"
        ELSE IF has("pyproject.toml") /\ can_read("pyproject.toml")
                /\ Contains(project.pyproject, "[tool.poetry]") THEN "poetry"
        ELSE IF has("pyproject.toml") /\ can_read("pyproject.toml")
                /\ Contains(project.pyproject, "[tool.pdm]") THEN "pdm"
        ELSE IF has("pyproject.toml") /\ can_read("pyproject.toml")
                /\ Contains(project.pyproject, "[tool.hatch]") THEN "hatch"
        ELSE IF has("uv.lock") THEN "uv"
        ELSE IF has("rye.lock") THEN "rye"
        ELSE IF has(".python-version") /\ can_read(".python-version")
        THEN (IF Contains(Lower(project.pyver), "rye") \/ has(".rye") THEN "rye" ELSE "uv")
        ELSE IF has("pdm.lock") THEN "pdm"
        ELSE IF has("pixi.lock") \/ has("pixi.toml") THEN "pixi"
        ELSE IF has("environment.yml") \/ has("conda.yml") THEN "conda"
        ELSE "None"

get_run_command(manager) ==
    CASE manager = "poetry" -> "poetry run"
      [] manager = "uv"     -> "uv run"
      [] manager = "pdm"    -> "pdm run"
      [] manager = "hatch"  -> "hatch run"
      [] manager = "rye"    -> "rye run"
      [] manager = "pixi"   -> "pixi run"
      [] manager = "conda"  -> "conda run -n <env_name>"
      [] manager = "mamba"  -> "mamba run -n <env_name>"
      [] OTHER              -> manager \o " run"

\* s without its leading whitespace (what a greedy \s* consumes)
LStrip(s) ==
    LET ink == {i \in 1..Len(s) : ~IsSpace(Char(s, i))}
    IN  IF ink = {} THEN "" ELSE Drop(s, SetMin(ink) - 1)

\* the prefixes the group (python3?) can match at the start of s
PythonPrefixes(s) == {p \in {"python3", "python"} : StartsWith(s, p)}

\* re.match(r"^(python3?)(\s.*)$", command): "." stops at a newline and "$"
\* matches at the end or before one final newline.  "None" when no match.
suggest_replacement(command, manager) ==
    LET ok(p) ==
            LET rest == Drop(command, Len(p))
                tail == Drop(rest, 1)
                body == IF EndsWith(tail, "\n") THEN SubSeq(tail, 1, Len(tail) - 1) ELSE tail
            IN  rest # "" /\ IsSpace(Char(rest, 1)) /\ ~Contains(body, "\n")
        ps == {p \in PythonPrefixes(command) : ok(p)}
    IN  IF ps = {} THEN "None"
        ELSE LET python_cmd == CHOOSE p \in ps : \A q \in ps : Len(p) >= Len(q)
                 rest == Strip(Drop(command, Len(python_cmd)))
                 run_cmd == get_run_command(manager)
             IN  IF rest # "" THEN run_cmd \o " " \o python_cmd \o " " \o rest
                 ELSE run_cmd \o " " \o python_cmd

BOOTSTRAP_MODULES == {"poetry", "uv", "pdm", "hatch", "rye", "pixi", "pip", "conda", "mamba"}

\* re.match(r"^python3?\s+-m\s+(poetry|uv|pdm|hatch|rye|pixi|pip|conda|mamba)", command.strip())
is_bootstrapping_command(command) ==
    LET s == Strip(command)
    IN  \E p \in PythonPrefixes(s) :
            LET r1 == Drop(s, Len(p))
                r2 == LStrip(r1)
                r3 == Drop(r2, 2)
                r4 == LStrip(r3)
            IN  /\ Len(r2) < Len(r1)
                /\ StartsWith(r2, "-m")
                /\ Len(r4) < Len(r3)
                /\ \E m \in BOOTSTRAP_MODULES : StartsWith(r4, m)

\* bool(re.match(r"^(python3?)(\s)", command.strip()))
should_block_command(command) ==
    LET s == Strip(command)
    IN  \E p \in PythonPrefixes(s) : Len(s) > Len(p) /\ IsSpace(Char(s, Len(p) + 1))

\* main() of python-manager-enforcer/scripts/enforce.py
PythonOutcome(req, e) ==
    LET c == GetCommand(req)
        body ==
            IF req.shape \in {"empty", "invalid"} THEN Allow
            ELSE IF c.raised THEN Raised
            ELSE IF ~Truthy(c.kind, c.val) THEN Allow
            ELSE IF c.kind # "str" THEN Raised
            ELSE IF is_bootstrapping_command(c.val) THEN Allow
            ELSE IF ~should_block_command(c.val) THEN Allow
            ELSE LET manager == detect_package_manager(e.project)
                 IN  IF manager = "None" THEN Allow
                     ELSE Block("(x) Direct python blocked. Project uses " \o manager \o ": "
                                \o suggest_replacement(c.val, manager))
    IN  ExceptExit0(body)

(***************************************************************************)
(* Inputs                                                                  *)
(***************************************************************************)

\* pieces appended to the head of a command
MaxArgs == 2
\* suffixes appended to an entry of the write-command catalogue
MaxSuffix == 1
\* marker files present in a project directory
MaxFiles == 2

\* the concatenations of at most n strings of V
RECURSIVE Concats(_, _)
Concats(V, n) ==
    IF n = 0 THEN {""}
    ELSE LET prev == Concats(V, n - 1)
         IN  prev \cup {p \o v : p \in prev, v \in V}

Commands(heads, args) == {h \o a : h \in heads, a \in Concats(args, MaxArgs)}

Req(shape, tool, tool_input, ckind, command) ==
    [shape |-> shape, tool_name |-> tool, tool_input |-> tool_input,
     ckind |-> ckind, command |-> command]

ToolNames == {"Bash", "Read", ""}

\* standard input that is empty, not JSON, JSON but no object, or an object
\* without a usable tool_input.command
BadRequests ==
    {Req(sh, t, "absent", "absent", "") : sh \in {"empty", "invalid", "nonobject"}, t \in ToolNames}
    \cup {Req("object", t, ti, "absent", "") : ti \in {"absent", "nonobject"}, t \in ToolNames}
    \cup {Req("object", t, "object", k, "") :
            k \in {"absent", "str", "null", "zero", "num", "emptylist", "list",
                   "true", "false", "obj"},
            t \in ToolNames}

GoodRequests(tools, commands) ==
    {Req("object", t, "object", "str", c) : t \in tools, c \in commands}

NoProject == [dir |-> "unset", files |-> {}, readable |-> {}, pyproject |-> "", pyver |-> ""]

Env(settings, installed, project) ==
    [settings |-> settings, installed |-> installed, project |-> project]

\* --- gh write guard
SettingsFiles == {"absent", "unreadable", "enabled_true", "enabled_false", "not_dict"}

GhHeads == {"gh api", "gh api repos/o/r/issues -f title=x", "gh  api", "gh pr list",
            "gh pr merge", "gh", "echo gh"}
GhArgs == {" -f a=b", " -Fa=b", " --field a=b", " --raw-field a=b",
           " -X GET", " --method GET", " --method=GET", " -X get",
           " -X POST", " --method=delete", " --format json", " -format"}
GhSuffixes == {" 123", "x", " -X GET"}

GhCommands ==
    Commands(GhHeads, GhArgs)
    \cup {WRITE_CMDS[i] \o a : i \in 1..Len(WRITE_CMDS), a \in Concats(GhSuffixes, MaxSuffix)}

\* every command under the settings that matter to a Bash request, and a few
\* requests (the malformed ones among them) under every tool name and settings file
GhInputs ==
    (GoodRequests({"Bash"}, GhCommands)
        \X {Env(f, {}, NoProject) : f \in {"absent", "enabled_true", "enabled_false"}})
    \cup ((BadRequests \cup GoodRequests(ToolNames, {"gh pr merge 123", "gh pr list", "gh api -f a=b"}))
        \X {Env(f, {}, NoProject) : f \in SettingsFiles})

\* --- modern-CLI enforcer
ModernTools == {"rg", "fd", "bat", "eza"}

ModernHeads == {"grep foo", "echo grep", "echo a", "ls", " cat x", "find ."}
ModernArgs == {" | grep b", "&&ls", " ; cat y", "\ngrep c", " || find .", " grep", " & grep x"}
InstalledSome == {{}, {"rg"}, {"fd", "bat"}, {"eza"}, ModernTools}

\* every command under some sets of installed tools, and a few requests under
\* every set
ModernInputs ==
    (GoodRequests({"Bash"}, Commands(ModernHeads, ModernArgs))
        \X {Env("absent", inst, NoProject) : inst \in InstalledSome})
    \cup ((BadRequests \cup GoodRequests({"Bash"}, {"grep foo", "echo a | grep b", "ls; cat x"}))
        \X {Env("absent", inst, NoProject) : inst \in SUBSET ModernTools})

\* --- native timeout enforcer
TimeoutHeads == {"timeout", "gtimeout", " timeout", "timeout\t", "echo a", "sleep 1"}
TimeoutArgs == {" 30s", " 5", " 2m", " 1h", " 007s", " 10x", " --foreground", " --kill-after=5",
                " sleep 100", " somecmd", " && timeout 5 x", " | gtimeout 3 y"}

TimeoutInputs ==
    (GoodRequests({"Bash"}, Commands(TimeoutHeads, TimeoutArgs)) \cup BadRequests)
        \X {Env("absent", {}, NoProject)}

\* --- python-manager enforcer
MarkerFiles == {"poetry.lock", "pyproject.toml", "uv.lock", "rye.lock", ".python-version",
                ".rye", "pdm.lock", "pixi.lock", "pixi.toml", "environment.yml", "conda.yml"}
PyprojectTexts == {"[project]\nname = 'x'\n", "[tool.poetry]\n", "[tool.pdm]\n[tool.hatch]\n",
                   "[tool.hatch]\n"}
PyverTexts == {"3.12\n", "Rye@3.12\n"}

Projects ==
    {[dir |-> "unset", files |-> {}, readable |-> {}, pyproject |-> "", pyver |-> ""],
     [dir |-> "missing", files |-> {}, readable |-> {}, pyproject |-> "", pyver |-> ""]}
    \cup {[dir |-> "dir", files |-> fs, readable |-> rd, pyproject |-> pp, pyver |-> pv] :
            fs \in {x \in SUBSET MarkerFiles : Cardinality(x) <= MaxFiles},
            rd \in SUBSET {"pyproject.toml", ".python-version"},
            pp \in PyprojectTexts, pv \in PyverTexts}

\* a project is listed once: text and readability only of files that exist
Canonical(pr) ==
    /\ pr.readable \subseteq pr.files
    /\ "pyproject.toml" \notin pr.readable => pr.pyproject = "[tool.poetry]\n"
    /\ ".python-version" \notin pr.readable => pr.pyver = "3.12\n"

PoetryProject ==
    [dir |-> "dir", files |-> {"poetry.lock"}, readable |-> {}, pyproject |-> "[tool.poetry]\n",
     pyver |-> "3.12\n"]
CondaProject ==
    [dir |-> "dir", files |-> {"environment.yml"}, readable |-> {}, pyproject |-> "[tool.poetry]\n",
     pyver |-> "3.12\n"]

PythonHeads == {"python", "python3", " python", "python3.11", "pythonw", "pip"}
PythonArgs == {" script.py", " -m", " uv", " uvicorn app", " pip install x",
               "\n-m", "\nprint(1)", " -c x\n", "\t-m pytest"}

\* every command in three projects, a few commands in every project, and the
\* malformed requests in three projects
PythonInputs ==
    ((GoodRequests({"Bash"}, Commands(PythonHeads, PythonArgs)) \cup BadRequests)
        \X {Env("absent", {}, pr) : pr \in {PoetryProject, CondaProject, NoProject}})
    \cup (GoodRequests({"Bash"}, {"python script.py", "python3 -m pytest -q",
                                  "python -m uv pip install x"})
        \X {Env("absent", {}, pr) : pr \in {x \in Projects : Canonical(x)}})

Guards == {"gh", "modern", "timeout", "python"}

Inputs(g) ==
    CASE g = "gh" -> GhInputs
      [] g = "modern" -> ModernInputs
      [] g = "timeout" -> TimeoutInputs
      [] OTHER -> PythonInputs

(***************************************************************************)
(* The guard processes                                                     *)
(***************************************************************************)

Init ==
    /\ guard \in Guards
    /\ \E in \in Inputs(guard) : request = in[1] /\ env = in[2]
    /\ pc = "start"
    /\ exit_code = -1
    /\ stderr = ""

Exit(o) ==
    /\ pc' = "done"
    /\ exit_code' = o.exit
    /\ stderr' = o.err
    /\ UNCHANGED <<guard, request, env>>

GhMain == guard = "gh" /\ pc = "start" /\ Exit(GhOutcome(request, env))

ModernMain == guard = "modern" /\ pc = "start" /\ Exit(ModernOutcome(request, env))

TimeoutMain == guard = "timeout" /\ pc = "start" /\ Exit(TimeoutOutcome(request, env))

PythonMain == guard = "python" /\ pc = "start" /\ Exit(PythonOutcome(request, env))

Next == GhMain \/ ModernMain \/ TimeoutMain \/ PythonMain

Spec == Init /\ [][Next]_vars

(***************************************************************************)
(* Properties                                                              *)
(***************************************************************************)

Cmd == request.command
Tokens == Split(Cmd)
FirstToken == LET t == Tokens IN IF t = << >> THEN "" ELSE t[1]

\* the second token is api
SecondIsApi == LET t == Tokens IN Len(t) >= 2 /\ t[2] = "api"

Done(g) == pc = "done" /\ guard = g

\* the request carries a non-empty string under tool_input.command
WellFormed ==
    /\ request.shape = "object"
    /\ request.tool_input = "object"
    /\ request.ckind = "str"
    /\ request.command # ""

\* exit code 0 and nothing on stderr
Allowed == exit_code = 0 /\ stderr = ""

\* C1: whatever the guard, a run on standard input that is empty, not JSON, not
\* a JSON object, without tool_input or tool_input.command, or with an empty or
\* non-string command ends with exit code 0 and an empty stderr (never exit
\* code 2, never the exit of an uncaught exception).
C1_FailOpen == (pc = "done" /\ ~WellFormed) => Allowed

\* the gh guard has run on a request whose command is a JSON list: the
\* attribute error of cmd.startswith is swallowed
C1_Witness ==
    /\ Done("gh")
    /\ request.shape = "object" /\ request.tool_input = "object"
    /\ request.tool_name = "Bash" /\ request.ckind = "list"
    /\ exit_code = 0

\* the gh guard ran on a Bash request with the guard enabled
GhCase ==
    /\ Done("gh")
    /\ WellFormed
    /\ request.tool_name = "Bash"
    /\ env.settings \in {"absent", "unreadable", "enabled_true"}

\* a `gh api` command: starts with "gh " and its second token is api
GhApiCase == GhCase /\ StartsWith(Cmd, "gh ") /\ SecondIsApi

\* C2: with tool Bash and the guard enabled, a command that starts with a
\* catalogue entry is blocked with exit code 2 and a reason naming that entry;
\* a command starting with "gh " that is no gh api command and starts with no
\* catalogue entry is allowed with exit code 0 and no output.
C2_GhCatalogue ==
    GhCase =>
        /\ \A i \in 1..Len(WRITE_CMDS) :
              StartsWith(Cmd, WRITE_CMDS[i])
                  => exit_code = 2 /\ Contains(stderr, WRITE_CMDS[i])
        /\ ( /\ StartsWith(Cmd, "gh ")
             /\ ~SecondIsApi
             /\ \A i \in 1..Len(WRITE_CMDS) : ~StartsWith(Cmd, WRITE_CMDS[i]) )
           => Allowed

\* `gh pr merge 123` was blocked
C2_Witness == GhCase /\ Cmd = "gh pr merge 123" /\ exit_code = 2

\* a token that sets a field: -f, -F, --field, --raw-field, or -f/-F glued to a value
FieldFlagToken(t) ==
    t \in {"-f", "-F", "--field", "--raw-field"} \/ StartsWith(t, "-f") \/ StartsWith(t, "-F")

HasFieldFlagToken == LET t == Tokens IN \E i \in 1..Len(t) : FieldFlagToken(t[i])

\* an explicit GET override, upper case
HasGetOverride ==
    \E o \in {"-X GET", "--method GET", "--method=GET"} : Contains(Cmd, o)

\* a write-method flag in any letter case: -X M, -XM, --method M, --method=M
HasWriteMethodFlag ==
    LET low == Lower(Cmd)
    IN  \E m \in {"post", "put", "patch", "delete"} :
            \E f \in {"-x ", "-x", "--method ", "--method="} : Contains(low, f \o m)

\* C3 as stated: a gh api command with a field flag is allowed when it carries
\* an upper-case GET override and blocked when it carries none.
C3_Original ==
    (GhApiCase /\ HasFieldFlagToken) =>
        IF HasGetOverride THEN Allowed ELSE exit_code = 2

\* C3 amended: a gh api command with a field flag and an upper-case GET
\* override is allowed provided no write-method flag occurs in it, and blocked
\* when one does; with a field flag and no GET override it is blocked.
C3_GetOverride ==
    (GhApiCase /\ HasFieldFlagToken) =>
        /\ (HasGetOverride /\ ~HasWriteMethodFlag) => Allowed
        /\ HasWriteMethodFlag => exit_code = 2
        /\ ~HasGetOverride => exit_code = 2

\* a field-setting gh api call with -X GET was allowed
C3_Witness == GhApiCase /\ Cmd = "gh api repos/o/r/issues -f title=x -X GET" /\ Allowed

\* C9 as stated: a gh api command with the token --format, no other field flag
\* and no method flag is blocked as an implicit POST.
C9_Original ==
    ( /\ GhApiCase
      /\ LET t == Tokens
         IN  /\ \E i \in 1..Len(t) : t[i] = "--format"
             /\ \A i \in 1..Len(t) : t[i] # "--format" => ~FieldFlagToken(t[i])
      /\ ~HasWriteMethodFlag /\ ~HasGetOverride )
    => exit_code = 2

\* C9 amended: any token starting with -f or -F counts as a field flag, so a
\* single-dash flag sharing the prefix (-format) blocks a gh api command that
\* has no GET override; the token --format starts with "--", is not matched,
\* and a gh api command with --format, no field flag and no write-method flag
\* is allowed.
C9_FieldPrefix ==
    GhApiCase =>
        /\ ( /\ LET t == Tokens
                IN  \E i \in 1..Len(t) : StartsWith(t[i], "-f") \/ StartsWith(t[i], "-F")
             /\ ~HasGetOverride )
           => exit_code = 2
        /\ ( /\ LET t == Tokens IN \E i \in 1..Len(t) : t[i] = "--format"
             /\ ~HasFieldFlagToken
             /\ ~HasWriteMethodFlag )
           => Allowed

\* `gh api --format json` was allowed
C9_Witness == GhApiCase /\ Cmd = "gh api --format json" /\ Allowed

\* the top-level tools each guard watches for
GuardedTools(g) ==
    CASE g = "gh" -> {"gh"}
      [] g = "modern" -> {"grep", "find", "cat", "ls"}
      [] g = "timeout" -> {"timeout", "gtimeout"}
      [] OTHER -> {"python", "python3"}

\* the pieces of c between shell operators, found in one left-to-right scan:
\* an operator is "&&" or one of the characters of `singles`
RECURSIVE ScanSegments(_, _)
ScanSegments(c, singles) ==
    LET cuts == {i \in 1..Len(c) : \/ Char(c, i) \in singles
                                  \/ (i < Len(c) /\ SubSeq(c, i, i + 1) = "&&")}
    IN  IF cuts = {} THEN <<c>>
        ELSE LET i == SetMin(cuts)
                 w == IF Char(c, i) \in singles THEN 1 ELSE 2
             IN  <<SubSeq(c, 1, i - 1)>> \o ScanSegments(Drop(c, i + w - 1), singles)

\* w is the first token of some segment of c
IsSegmentHead(c, w, singles) ==
    LET segs == ScanSegments(c, singles)
    IN  \E k \in 1..Len(segs) :
            LET t == Split(segs[k])
            IN  t # << >> /\ t[1] = w

\* the operators of the specification: | && || ;
ShellOperators == {"|", ";"}
\* the same with the newline, which has_command_word cuts at as well
ShellOperatorsAndNewline == {"|", ";", "\n"}

\* a timeout invocation inside a chain, as validate_timeout.py looks for it
TimeoutInChain ==
    /\ Contains(Cmd, " timeout ") \/ Contains(Cmd, " gtimeout ")
    /\ \E sep \in {"&&", "||", ";", "|"} : Contains(Cmd, sep)

ModernBlocksOnHeads(singles) ==
    exit_code = 2 <=>
        \E i \in 1..Len(LEGACY) :
            LEGACY[i].which \in env.installed /\ IsSegmentHead(Cmd, LEGACY[i].old, singles)

\* C5 as stated: cutting the command at | && || ; only, has_command_word(cmd, w)
\* holds exactly when w is the first token of a segment, and the enforcer
\* blocks accordingly.
C5_Original ==
    (Done("modern") /\ WellFormed) =>
        /\ \A w \in GuardedTools("modern") :
              has_command_word(Cmd, w) <=> IsSegmentHead(Cmd, w, ShellOperators)
        /\ ModernBlocksOnHeads(ShellOperators)

\* C5 amended: cutting the command at | && || ; and at every newline,
\* has_command_word(cmd, w) holds exactly when w is the first token of a
\* segment; with the replacement installed `grep foo` and `echo a | grep b`
\* are blocked for grep and `echo grep` is not.
C5_SegmentHead ==
    (Done("modern") /\ WellFormed) =>
        /\ \A w \in GuardedTools("modern") :
              has_command_word(Cmd, w) <=> IsSegmentHead(Cmd, w, ShellOperatorsAndNewline)
        /\ ModernBlocksOnHeads(ShellOperatorsAndNewline)
        /\ (Cmd \in {"grep foo", "echo a | grep b"} /\ "rg" \in env.installed)
               => exit_code = 2 /\ Contains(stderr, "instead of grep")
        /\ Cmd = "echo grep" => Allowed

\* `echo a | grep b` was blocked for grep
C5_Witness ==
    /\ Done("modern") /\ Cmd = "echo a | grep b" /\ env.installed = {"rg"}
    /\ exit_code = 2

\* the tokens after the first that have the shape of a duration
DurationTokens ==
    LET t == Tokens
    IN  {i \in 2..Len(t) :
            /\ ~StartsWith(t[i], "--")
            /\ \/ IsDigit(t[i])
               \/ \E u \in {"s", "m", "h", "d"} :
                     EndsWith(t[i], u) /\ IsDigit(SubSeq(t[i], 1, Len(t[i]) - 1))}

\* C6: for a command whose first token is timeout or gtimeout, the duration
\* parse_duration extracts is the first later token not starting with "--"
\* that is digits or digits and one of s/m/h/d, and "5" when there is none;
\* to_ms gives N*1000 for N and Ns, N*60000 for Nm, 5000 when no duration was
\* found; the block message of a direct invocation carries that value.
C6_Duration ==
    (Done("timeout") /\ WellFormed /\ FirstToken \in {"timeout", "gtimeout"}) =>
        LET d  == parse_duration(Cmd).duration
            ms == to_ms(d)
            dt == DurationTokens
            t  == Tokens[SetMin(dt)]
        IN  /\ dt = {} => d = "5" /\ ms = "5000"
            /\ dt # {} =>
                  /\ d = t
                  /\ IsDigit(t) => ms = ToStr(ParseInt(t) * 1000)
                  /\ EndsWith(t, "s") => ms = ToStr(ParseInt(SubSeq(t, 1, Len(t) - 1)) * 1000)
                  /\ EndsWith(t, "m") => ms = ToStr(ParseInt(SubSeq(t, 1, Len(t) - 1)) * 60000)
            /\ StartsWith(Cmd, FirstToken \o " ")
                  => exit_code = 2 /\ Contains(stderr, "timeout=" \o ms \o ")")
            /\ Cmd = "timeout 30s sleep 100" => d = "30s" /\ ms = "30000"
            /\ Cmd = "timeout 5 sleep 100" => d = "5" /\ ms = "5000"
            /\ Cmd = "timeout somecmd" => d = "5" /\ ms = "5000"

\* `timeout --foreground 2m` was blocked with the minutes converted
C6_Witness ==
    /\ Done("timeout") /\ Cmd = "timeout --foreground 2m"
    /\ exit_code = 2 /\ Contains(stderr, "timeout=120000)")

\* (manager, its lock file)
LockFiles == {<<"poetry", "poetry.lock">>, <<"uv", "uv.lock">>, <<"rye", "rye.lock">>,
              <<"pdm", "pdm.lock">>, <<"pixi", "pixi.lock">>}

\* C7: in a directory holding the lock file of manager A and a plain
\* .python-version and no other marker, detect_package_manager returns A, so
\* that `python script.py` is blocked with the reason naming A.
C7_LockFileWins ==
    \A lf \in LockFiles :
        ( /\ Done("python") /\ WellFormed /\ Cmd = "python script.py"
          /\ env.project.dir = "dir"
          /\ env.project.files = {lf[2], ".python-version"}
          /\ ".python-version" \in env.project.readable
          /\ env.project.pyver = "3.12\n" )
        => /\ detect_package_manager(env.project) = lf[1]
           /\ exit_code = 2
           /\ Contains(stderr, "Project uses " \o lf[1] \o ":")

\* python -m M ... with M exactly one of the managers
IsBootstrapInvocation ==
    LET t == Tokens IN Len(t) >= 3 /\ t[2] = "-m" /\ t[3] \in BOOTSTRAP_MODULES

\* C8: where a manager is detected, a command python or python3 with arguments
\* is allowed exactly when it is python[3] -m M ... with M one of poetry, uv,
\* pdm, hatch, rye, pixi, pip, conda, mamba, and blocked with exit code 2
\* otherwise.
C8_BootstrapIff ==
    ( /\ Done("python") /\ WellFormed
      /\ detect_package_manager(env.project) # "None"
      /\ FirstToken \in {"python", "python3"}
      /\ Len(Tokens) >= 2 )
    => IF IsBootstrapInvocation THEN Allowed ELSE exit_code = 2

\* C10: whenever the python-manager enforcer blocks, the reason carries a
\* replacement "<run command of the manager> python[3] ..."; suggest_replacement
\* yields a suggestion for every command should_block_command accepts.
C10_SuggestionAlways ==
    (Done("python") /\ exit_code = 2) =>
        LET manager == detect_package_manager(env.project)
        IN  /\ suggest_replacement(Cmd, manager) # "None"
            /\ \E p \in {"python", "python3"} :
                  Contains(stderr, ": " \o get_run_command(manager) \o " " \o p)

====
